---- MODULE Spec2Model ----
(***************************************************************************)
(* A model of habit_tracker.py: the Habit class (in-memory habit objects,  *)
(* the per-habit record files under habits/, the missing-day accounting)   *)
(* and the wall clock it reads.                                            *)
(*                                                                         *)
(* Representation.                                                         *)
(*   - A calendar day is its day of the month in one fixed month           *)
(*     (January 2024), so (today - start_date).days is a difference of     *)
(*     integers.  A date string is the text _date_to_str produces.         *)
(*   - A text is kept as the sequence of its lines (what str.split("\n")   *)
(*     returns): the empty text is <<"">>, a text of two lines <<a, b>>.   *)
(*     A file is the sequence of lines f.read().splitlines() returns.      *)
(*     Lines themselves hold no line break.                                *)
(*   - A call that raises is an outcome whose err is the exception (or the *)
(*     assertion's message); err = "ok" is a normal return.                *)
(***************************************************************************)
EXTENDS Integers, Sequences, FiniteSets, TLC

VARIABLES
    today,    \* the calendar day datetime.now() falls on
    dir,      \* whether the directory habits/ exists
    files,    \* habits/: file name -> the file's lines
    habits,   \* the caller's Habit objects: handle -> object
    op        \* the last call: its name, handle, arguments and outcome, and
              \* whether it is a save repeating the save before it

vars == <<today, dir, files, habits, op>>

\* -------------------------------------------------------------- bounds

\* The last day the clock reaches.
MaxDay == 3
\* The longest list of results a caller hands to create or to
\* mark_missing_days.
MaxLen == 2
\* The most lines of a description a caller hands to create.
MaxDescLines == 2

\* ------------------------------------------------------------- helpers

Max(S) == CHOOSE x \in S : \A y \in S : y <= x

SeqsUpTo(S, n) == UNION {[1..k -> S] : k \in 0..n}

\* lst[a:b] of Python for 0 <= a, with 0-based bounds.
Slice(lst, a, b) ==
    LET hi == IF b > Len(lst) THEN Len(lst) ELSE b
    IN  IF a >= hi THEN <<>> ELSE [i \in 1..(hi - a) |-> lst[a + i]]

\* A mutant of LastIndex: the second element equal to x when there are two
\* or more (a scan that stops at the first separator after the title's).
SecondIndex(lst, x) ==
    LET occ == {i \in 1..Len(lst) : lst[i] = x}
        first == CHOOSE i \in occ : \A j \in occ : i <= j
        rest == occ \ {first}
    IN  IF rest = {} THEN first - 1
        ELSE (CHOOSE i \in rest : \A j \in rest : i <= j) - 1

\* The 0-based index of the last element of lst equal to x (x occurs in lst).
LastIndex(lst, x) == Max({i \in 1..Len(lst) : lst[i] = x}) - 1

Ok(v) == [err |-> "ok", val |-> v]
Raise(e) == [err |-> e, val |-> <<>>]

\* -------------------------------------------------------------- Result

Result == {"GOOD", "BAD", "UNKNOWN"}

\* Result.value
Result_value(r) ==
    CASE r = "GOOD" -> "+"
      [] r = "BAD" -> "-"
      [] r = "UNKNOWN" -> "?"

\* A mutant of from_str: an unknown string decodes as UNKNOWN.
from_str_lenient(s) ==
    IF s = "+" THEN Ok("GOOD")
    ELSE IF s = "-" THEN Ok("BAD")
    ELSE Ok("UNKNOWN")

from_str(s) ==
    IF s = "+" THEN Ok("GOOD")
    ELSE IF s = "-" THEN Ok("BAD")
    ELSE IF s = "?" THEN Ok("UNKNOWN")
    ELSE Raise("AssertionError")

\* --------------------------------------------------------------- dates

\* The days of the month datetime accepts.
MonthDays == 1..31

_date_to_str(date) == "2024-1-" \o ToString(date)

\* datetime(*map(int, s.split("-"))): ValueError on a text that is no date.
_str_to_date(date_str) ==
    IF \E d \in MonthDays : _date_to_str(d) = date_str
    THEN Ok(CHOOSE d \in MonthDays : _date_to_str(d) = date_str)
    ELSE Raise("ValueError")

\* A mutant of _get_today: the date is the one day the clock started at,
\* however far the clock has moved.
_get_today_cached == CHOOSE d \in MonthDays : \A e \in MonthDays : d <= e

_get_today == today

_get_today_str == _date_to_str(_get_today)

\* --------------------------------------------------------------- Habit

_SEP == "-#-#-#-#-#-#-#-#-#-#-#-#-#-#-#-#-#-#-#-#-"

\* Habit.__init__
Habit(habit_id, title, description, start_date_str, series) ==
    [_habit_id |-> habit_id, title |-> title, description |-> description,
     _start_date_str |-> start_date_str, _series |-> series]

\* A mutant of _get_num_missing_days: the "even today is added" case is lost.
_get_num_missing_days_no_today_case(start_date_str, series, including_today) ==
    LET start_date == _str_to_date(start_date_str)
        num_days == _get_today - start_date.val
    IN  IF start_date.err # "ok" THEN start_date
        ELSE IF ~(Len(series) <= num_days + 1) THEN Raise("AssertionError")
        ELSE IF including_today THEN Ok(num_days - Len(series) + 1)
        ELSE Ok(num_days - Len(series))

\* A mutant of _get_num_missing_days: the length assertion is lost.
_get_num_missing_days_no_assert(start_date_str, series, including_today) ==
    LET start_date == _str_to_date(start_date_str)
        num_days == _get_today - start_date.val
    IN  IF start_date.err # "ok" THEN start_date
        ELSE IF including_today THEN Ok(num_days - Len(series) + 1)
        ELSE IF Len(series) = num_days + 1 THEN Ok(0)
        ELSE Ok(num_days - Len(series))

\* A mutant of _get_num_missing_days: the flag is ignored, today is counted.
_get_num_missing_days_ignores_flag(start_date_str, series, including_today) ==
    LET start_date == _str_to_date(start_date_str)
        num_days == _get_today - start_date.val
    IN  IF start_date.err # "ok" THEN start_date
        ELSE IF ~(Len(series) <= num_days + 1) THEN Raise("AssertionError")
        ELSE Ok(num_days - Len(series) + 1)

_get_num_missing_days(start_date_str, series, including_today) ==
    LET start_date == _str_to_date(start_date_str)
        num_days == _get_today - start_date.val
    IN  IF start_date.err # "ok" THEN start_date
        ELSE IF ~(Len(series) <= num_days + 1) THEN Raise("AssertionError")
        ELSE IF including_today THEN Ok(num_days - Len(series) + 1)
        ELSE IF Len(series) = num_days + 1 THEN Ok(0)
        ELSE Ok(num_days - Len(series))

get_num_missing_days(self, including_today) ==
    _get_num_missing_days(self._start_date_str, self._series, including_today)

is_today_marked(self) ==
    LET n == get_num_missing_days(self, TRUE)
    IN  IF n.err # "ok" THEN n ELSE Ok(n.val = 0)

\* A mutant of mark_today: the "already marked" assertion is lost.
mark_today_no_marked_check(self, result) ==
    LET num_missing_days == get_num_missing_days(self, TRUE)
    IN  IF num_missing_days.err # "ok" THEN Raise(num_missing_days.err)
        ELSE IF num_missing_days.val > 1
             THEN Raise("There are other days missing!")
        ELSE Ok([self EXCEPT !._series = Append(@, result)])

\* A mutant of mark_today: the "other days missing" assertion is lost.
mark_today_no_backfill_check(self, result) ==
    LET num_missing_days == get_num_missing_days(self, TRUE)
    IN  IF num_missing_days.err # "ok" THEN Raise(num_missing_days.err)
        ELSE IF ~(num_missing_days.val > 0)
             THEN Raise("Today is already marked!")
        ELSE Ok([self EXCEPT !._series = Append(@, result)])

\* The outcome of self.mark_today(result): the error, or the object after it.
mark_today(self, result) ==
    LET num_missing_days == get_num_missing_days(self, TRUE)
    IN  IF num_missing_days.err # "ok" THEN Raise(num_missing_days.err)
        ELSE IF ~(num_missing_days.val > 0)
             THEN Raise("Today is already marked!")
        ELSE IF ~(num_missing_days.val = 1)
             THEN Raise("There are other days missing!")
        ELSE Ok([self EXCEPT !._series = Append(@, result)])

\* A mutant of mark_missing_days: a list that is too short is accepted.
mark_missing_days_partial(self, results, including_today) ==
    LET n == get_num_missing_days(self, including_today)
    IN  IF n.err # "ok" THEN Raise(n.err)
        ELSE IF ~(Len(results) <= n.val) THEN Raise("AssertionError")
        ELSE Ok([self EXCEPT !._series = @ \o results])

\* A mutant of mark_missing_days: the list replaces the series.
mark_missing_days_replace(self, results, including_today) ==
    LET n == get_num_missing_days(self, including_today)
    IN  IF n.err # "ok" THEN Raise(n.err)
        ELSE IF ~(n.val = Len(results)) THEN Raise("AssertionError")
        ELSE Ok([self EXCEPT !._series = results])

\* The outcome of self.mark_missing_days(results, including_today).
mark_missing_days(self, results, including_today) ==
    LET n == get_num_missing_days(self, including_today)
    IN  IF n.err # "ok" THEN Raise(n.err)
        ELSE IF ~(n.val = Len(results)) THEN Raise("AssertionError")
        ELSE Ok([self EXCEPT !._series = @ \o results])

\* ------------------------------------------------------- habits/ files

\* The most habit files kept under habits/ (file names "0" .. MaxId).
MaxId == 3

str(n) == ToString(n)

\* int(s) for the decimal texts that name habit files.
int(s) == CHOOSE n \in -1..(MaxId + 1) : str(n) = s

NoFiles == [i \in {} |-> <<>>]

\* A mutant of _find_latest_habit_id: the files are counted, not their
\* names compared.
_find_latest_habit_id_count ==
    LET habit_ids == DOMAIN files
    IN  IF Cardinality(habit_ids) = 0 THEN "-1"
        ELSE str(Cardinality(habit_ids) - 1)

_find_latest_habit_id ==
    LET habit_ids == DOMAIN files
    IN  IF Cardinality(habit_ids) = 0 THEN "-1"
        ELSE str(Max({int(i) : i \in habit_ids}))

\* A mutant of _read_habit: the first separator after line 1 ends the
\* description, not the last one.
_read_habit_first_sep(habit_id) ==
    IF ~dir \/ habit_id \notin DOMAIN files THEN Raise("AssertionError")
    ELSE
    LET lines == files[habit_id]
    IN  IF Len(lines) < 2 THEN Raise("IndexError")
        ELSE IF ~(lines[2] = _SEP) THEN Raise("AssertionError")
        ELSE
        LET later == {i \in 3..Len(lines) : lines[i] = _SEP}
            second_sep_idx ==
                IF later = {} THEN 1
                ELSE (CHOOSE i \in later : \A j \in later : i <= j) - 1
        IN  IF ~(second_sep_idx # 1 /\ second_sep_idx # 2)
            THEN Raise("AssertionError")
            ELSE IF second_sep_idx + 1 >= Len(lines) THEN Raise("IndexError")
            ELSE
            LET title == lines[1]
                description == Slice(lines, 2, second_sep_idx)
                start_date_str == lines[second_sep_idx + 2]
                series_lines == Slice(lines, second_sep_idx + 2, Len(lines))
            IN  IF series_lines = <<"">>
                THEN Ok(<<title, description, start_date_str, <<>>>>)
                ELSE IF \E i \in 1..Len(series_lines) :
                            from_str(series_lines[i]).err # "ok"
                THEN Raise("AssertionError")
                ELSE Ok(<<title, description, start_date_str,
                          [i \in 1..Len(series_lines) |->
                              from_str(series_lines[i]).val]>>)

\* The outcome of _read_habit(habit_id): the error, or
\* <<title, description, start_date_str, series>>.
_read_habit(habit_id) ==
    IF ~dir \/ habit_id \notin DOMAIN files THEN Raise("AssertionError")
    ELSE
    LET lines == files[habit_id]
    IN  IF Len(lines) < 2 THEN Raise("IndexError")
        ELSE IF ~(lines[2] = _SEP) THEN Raise("AssertionError")
        ELSE
        LET second_sep_idx == LastIndex(lines, _SEP)
        IN  IF ~(second_sep_idx # 1 /\ second_sep_idx # 2)
            THEN Raise("AssertionError")
            ELSE IF second_sep_idx + 1 >= Len(lines) THEN Raise("IndexError")
            ELSE
            LET title == lines[1]
                \* "\n".join(lines[2:second_sep_idx]): at least one line here
                description == Slice(lines, 2, second_sep_idx)
                start_date_str == lines[second_sep_idx + 2]
                series_lines == Slice(lines, second_sep_idx + 2, Len(lines))
            IN  IF series_lines = <<"">>
                THEN Ok(<<title, description, start_date_str, <<>>>>)
                ELSE IF \E i \in 1..Len(series_lines) :
                            from_str(series_lines[i]).err # "ok"
                THEN Raise("AssertionError")
                ELSE Ok(<<title, description, start_date_str,
                          [i \in 1..Len(series_lines) |->
                              from_str(series_lines[i]).val]>>)

\* The lines of the text a file holds after _write_habit's six writes.
RecordLines(title, description, start_date_str, series) ==
    <<title, _SEP>> \o description \o <<_SEP, start_date_str>>
    \o (IF series = <<>> THEN <<"">>
        ELSE [i \in 1..Len(series) |-> Result_value(series[i])])

\* A mutant of _write_habit: the file is opened to append ("a"), not "w".
_write_habit_append(habit_id, title, description, start_date_str, series) ==
    [i \in DOMAIN files \cup {habit_id} |->
        IF i = habit_id
        THEN (IF i \in DOMAIN files THEN files[i] ELSE <<>>)
             \o RecordLines(title, description, start_date_str, series)
        ELSE files[i]]

\* habits/ after _write_habit(...): the file is rewritten whole.
_write_habit(habit_id, title, description, start_date_str, series) ==
    [i \in DOMAIN files \cup {habit_id} |->
        IF i = habit_id
        THEN RecordLines(title, description, start_date_str, series)
        ELSE files[i]]

\* Optional arguments: <<>> is None, <<v>> is the value v.
None == <<>>
Some(v) == <<v>>

\* The object Habit.create(...) returns.
create(title, description, start_date_str, series) ==
    LET habit_id == str(int(_find_latest_habit_id) + 1)
    IN  Habit(habit_id, title, description,
              IF start_date_str = None THEN _get_today_str
              ELSE start_date_str[1],
              IF series = None THEN <<>> ELSE series[1])

\* The outcome of Habit.find(habit_id=habit_id).
find(habit_id) ==
    LET r == _read_habit(habit_id)
    IN  IF r.err # "ok" THEN r
        ELSE Ok(Habit(habit_id, r.val[1], r.val[2], r.val[3], r.val[4]))

\* str.lower() on the titles and queries used here.
lower(s) ==
    CASE s = "Read" -> "read"
      [] s = "READ" -> "read"
      [] s = "Run" -> "run"
      [] s = "Walk" -> "walk"
      [] OTHER -> s

\* The orders os.listdir may return the file names S in.
Listings(S) ==
    {l \in [1..Cardinality(S) -> S] : \A i, j \in 1..Cardinality(S) :
                                          l[i] = l[j] => i = j}

\* The loop of _find_habit_id over the rest of the listing, desired_habit_id
\* being None or Some(id).
RECURSIVE FindLoop(_, _, _)
FindLoop(title, habit_ids, desired_habit_id) ==
    IF habit_ids = <<>>
    THEN IF desired_habit_id = None
         THEN Raise("There is no habit with title")
         ELSE Ok(desired_habit_id[1])
    ELSE LET habit_id == Head(habit_ids)
             r == _read_habit(habit_id)
         IN  IF r.err # "ok" THEN r
             ELSE IF lower(r.val[1]) = lower(title)
             THEN IF desired_habit_id # None
                  THEN Raise("There are more than 1 habits with title")
                  ELSE FindLoop(title, Tail(habit_ids), Some(habit_id))
             ELSE FindLoop(title, Tail(habit_ids), desired_habit_id)

\* The loop with a mutation: the first match is kept, a later one ignored.
RECURSIVE FindLoopFirst(_, _, _)
FindLoopFirst(title, habit_ids, desired_habit_id) ==
    IF habit_ids = <<>>
    THEN IF desired_habit_id = None
         THEN Raise("There is no habit with title")
         ELSE Ok(desired_habit_id[1])
    ELSE LET habit_id == Head(habit_ids)
             r == _read_habit(habit_id)
         IN  IF r.err # "ok" THEN r
             ELSE IF lower(r.val[1]) = lower(title) /\ desired_habit_id = None
             THEN FindLoopFirst(title, Tail(habit_ids), Some(habit_id))
             ELSE FindLoopFirst(title, Tail(habit_ids), desired_habit_id)

\* A mutant of _find_habit_id: no assertion that the match is the only one.
_find_habit_id_first_match(title, habit_ids) ==
    IF ~dir THEN Raise("AssertionError")
    ELSE FindLoopFirst(title, habit_ids, None)

\* The outcome of _find_habit_id(title) when os.listdir returns habit_ids.
_find_habit_id(title, habit_ids) ==
    IF ~dir THEN Raise("AssertionError")
    ELSE FindLoop(title, habit_ids, None)

\* The outcome of Habit.find(title=title) when os.listdir returns habit_ids.
find_title(title, habit_ids) ==
    LET i == _find_habit_id(title, habit_ids)
    IN  IF i.err # "ok" THEN i ELSE find(i.val)

\* ------------------------------------------------------------- actions

\* The record of a call; repeat marks a save that directly follows a save of
\* the same object.
Call(name, h, args, out) ==
    [name |-> name, h |-> h, args |-> args, err |-> out.err, ret |-> out.val,
     repeat |-> (name = "save" /\ op.name = name /\ op.h = h)]

Put(f, k, v) == [i \in DOMAIN f \cup {k} |-> IF i = k THEN v ELSE f[i]]

NoHabits == [i \in {} |-> <<>>]

\* h = Habit.create(title, description, start_date_str, series)
Create(h, title, description, start_date_str, series) ==
    LET obj == create(title, description, start_date_str, series)
    IN  /\ int(obj._habit_id) <= MaxId
        /\ dir' = TRUE
        /\ habits' = Put(habits, h, obj)
        /\ op' = Call("create", h, <<>>, Ok(obj._habit_id))
        /\ UNCHANGED <<today, files>>

\* h = Habit.find(habit_id)
Find(h, habit_id) ==
    LET r == find(habit_id)
    IN  /\ habits' = IF r.err = "ok" THEN Put(habits, h, r.val) ELSE habits
        /\ op' = Call("find", h, <<habit_id>>,
                      IF r.err = "ok" THEN Ok(<<>>) ELSE r)
        /\ UNCHANGED <<today, dir, files>>

\* h = Habit.find(title=title)
FindByTitle(h, title) ==
    \E habit_ids \in Listings(DOMAIN files) :
       LET r == find_title(title, habit_ids)
       IN  /\ habits' = IF r.err = "ok" THEN Put(habits, h, r.val) ELSE habits
           /\ op' = Call("find_title", h, <<title>>,
                         IF r.err = "ok" THEN Ok(<<>>) ELSE r)
           /\ UNCHANGED <<today, dir, files>>

\* A mutant of mark_today: the habit is saved after the append.
MarkToday_autosave(h, result) ==
    /\ h \in DOMAIN habits
    /\ LET r == mark_today(habits[h], result)
       IN  /\ habits' = IF r.err = "ok" THEN Put(habits, h, r.val) ELSE habits
           /\ files' = IF r.err = "ok"
                       THEN _write_habit(r.val._habit_id, r.val.title,
                                         r.val.description,
                                         r.val._start_date_str, r.val._series)
                       ELSE files
           /\ op' = Call("mark_today", h, <<result>>,
                         IF r.err = "ok" THEN Ok(<<>>) ELSE r)
    /\ UNCHANGED <<today, dir>>

\* habits[h].mark_today(result)
MarkToday(h, result) ==
    /\ h \in DOMAIN habits
    /\ LET r == mark_today(habits[h], result)
       IN  /\ habits' = IF r.err = "ok" THEN Put(habits, h, r.val) ELSE habits
           /\ op' = Call("mark_today", h, <<result>>,
                         IF r.err = "ok" THEN Ok(<<>>) ELSE r)
    /\ UNCHANGED <<today, dir, files>>

\* habits[h].mark_missing_days(results, including_today)
MarkMissingDays(h, results, including_today) ==
    /\ h \in DOMAIN habits
    /\ LET r == mark_missing_days(habits[h], results, including_today)
       IN  /\ habits' = IF r.err = "ok" THEN Put(habits, h, r.val) ELSE habits
           /\ op' = Call("mark_missing_days", h, <<results, including_today>>,
                         IF r.err = "ok" THEN Ok(<<>>) ELSE r)
    /\ UNCHANGED <<today, dir, files>>

\* habits[h].get_num_missing_days(including_today)
GetNumMissingDays(h, including_today) ==
    /\ h \in DOMAIN habits
    /\ op' = Call("get_num_missing_days", h, <<including_today>>,
                  get_num_missing_days(habits[h], including_today))
    /\ UNCHANGED <<today, dir, files, habits>>

\* habits[h].is_today_marked()
IsTodayMarked(h) ==
    /\ h \in DOMAIN habits
    /\ op' = Call("is_today_marked", h, <<>>, is_today_marked(habits[h]))
    /\ UNCHANGED <<today, dir, files, habits>>

\* habits[h].save()
Save(h) ==
    /\ h \in DOMAIN habits
    /\ LET self == habits[h]
       IN  files' = _write_habit(self._habit_id, self.title, self.description,
                                 self._start_date_str, self._series)
    /\ dir' = TRUE
    /\ op' = Call("save", h, <<>>, Ok(<<>>))
    /\ UNCHANGED <<today, habits>>

\* A mutant of remove: a record that is absent is passed over in silence.
Remove_quiet(h) ==
    /\ h \in DOMAIN habits
    /\ files' = [i \in DOMAIN files \ {habits[h]._habit_id} |-> files[i]]
    /\ op' = Call("remove", h, <<>>, Ok(<<>>))
    /\ UNCHANGED <<today, dir, habits>>

\* habits[h].remove(prompt=False)
Remove(h) ==
    /\ h \in DOMAIN habits
    /\ LET habit_id == habits[h]._habit_id
       IN  IF habit_id \in DOMAIN files
           THEN /\ files' = [i \in DOMAIN files \ {habit_id} |-> files[i]]
                /\ op' = Call("remove", h, <<>>, Ok(<<>>))
           ELSE /\ files' = files
                /\ op' = Call("remove", h, <<>>, Raise("FileNotFoundError"))
    /\ UNCHANGED <<today, dir, habits>>

\* Midnight passes: datetime.now() falls on the next day.
AdvanceDay ==
    /\ today < MaxDay
    /\ today' = today + 1
    /\ op' = Call("advance_day", 0, <<>>, Ok(<<>>))
    /\ UNCHANGED <<dir, files, habits>>

\* ------------------------------------------- the day-accounting machine

\* One habit object; create is handed any start date up to two days after
\* the last day of the clock and any series up to MaxLen.
StartDates == {_date_to_str(d) : d \in 1..(MaxDay + 2)}

\* The results the caller records here: the accounting never reads them, two
\* values are enough to tell the order of a backfill.
DayResults == {"GOOD", "BAD"}

Init ==
    /\ today \in 1..MaxDay
    /\ dir = FALSE
    /\ files = NoFiles
    /\ habits = NoHabits
    /\ op = [name |-> "init", h |-> 0, args |-> <<>>, err |-> "ok",
             ret |-> <<>>, repeat |-> FALSE]

Next ==
    \/ \E s \in {None} \cup {Some(d) : d \in StartDates},
          ser \in {None} \cup {Some(x) : x \in SeqsUpTo(DayResults, MaxLen)} :
          Create(1, "Read", <<"">>, s, ser)
    \/ \E r \in DayResults : MarkToday(1, r)
    \/ \E rs \in SeqsUpTo(DayResults, MaxLen), f \in BOOLEAN :
          MarkMissingDays(1, rs, f)
    \/ \E f \in BOOLEAN : GetNumMissingDays(1, f)
    \/ IsTodayMarked(1)
    \/ AdvanceDay

Spec == Init /\ [][Next]_vars

\* ---------------------------------------------- claims: day accounting

DateOk(self) == _str_to_date(self._start_date_str).err = "ok"

\* (today - start_date).days of a habit whose start date parses.
NumDays(self) == _get_today - _str_to_date(self._start_date_str).val

\* len(series) <= (today - startDate).days + 1
LengthOk(self) == DateOk(self) /\ Len(self._series) <= NumDays(self) + 1

\* len(series) > (today - startDate).days + 1
TooLong(self) == DateOk(self) /\ Len(self._series) > NumDays(self) + 1

MarkNames == {"mark_today", "mark_missing_days"}

\* C1: a habit that has started and whose series is no longer than the days
\* elapsed plus one stays so across every mark_today, every mark_missing_days
\* (either flag, succeeding or failing) and every advance of the day.
C1_LengthPreserved ==
    [][\A h \in DOMAIN habits :
          (/\ op'.name \in MarkNames \cup {"advance_day"}
           /\ DateOk(habits[h]) /\ NumDays(habits[h]) >= 0
           /\ LengthOk(habits[h]))
          => (h \in DOMAIN habits' /\ LengthOk(habits[h])')]_vars

\* A backfill of two or more days has just filled the series up to today.
C1_Witness ==
    /\ op.name = "mark_missing_days" /\ op.err = "ok"
    /\ Len(op.args[1]) >= 2
    /\ NumDays(habits[op.h]) >= 0
    /\ Len(habits[op.h]._series) = NumDays(habits[op.h]) + 1

\* C2: mark_today succeeds only when one day (today) is missing, and then
\* appends the result so that today is marked; with no day missing it fails
\* as "already marked", with more than one as "other days missing", and a
\* failed call leaves the object as it was; a second mark_today right after
\* a successful one fails as "already marked".
C2_MarkToday ==
    [][\A h \in DOMAIN habits :
        (op'.name = "mark_today" /\ op'.h = h) =>
        LET self == habits[h]
            n == get_num_missing_days(self, TRUE)
        IN  /\ op'.err = "ok" => (n.err = "ok" /\ n.val = 1)
            /\ (n.err = "ok" /\ n.val = 1) =>
                  /\ op'.err = "ok"
                  /\ habits'[h] =
                        [self EXCEPT !._series = Append(@, op'.args[1])]
                  /\ is_today_marked(habits[h])' = Ok(TRUE)
            /\ (n.err = "ok" /\ n.val = 0) =>
                  op'.err = "Today is already marked!"
            /\ (n.err = "ok" /\ n.val > 1) =>
                  op'.err = "There are other days missing!"
            /\ op'.err # "ok" => habits' = habits
            /\ (op.name = "mark_today" /\ op.err = "ok" /\ op.h = h) =>
                  op'.err = "Today is already marked!"]_vars

\* mark_today has just appended the result of a day after the start date.
C2_Witness ==
    /\ op.name = "mark_today" /\ op.err = "ok"
    /\ Len(habits[op.h]._series) >= 2
    /\ habits[op.h]._series[Len(habits[op.h]._series)] = op.args[1]

\* C3: mark_missing_days with a list whose length is not the missing count
\* fails and leaves the series as it was; with the exact count the series
\* becomes the old series followed by the list, in its order, and nothing
\* else of the object changes.
C3_AllOrNothing ==
    [][op'.name = "mark_missing_days" =>
        LET h == op'.h
            self == habits[h]
            results == op'.args[1]
            n == get_num_missing_days(self, op'.args[2])
        IN  /\ (n.err = "ok" /\ Len(results) # n.val) =>
                  (op'.err # "ok" /\ habits' = habits)
            /\ (n.err = "ok" /\ Len(results) = n.val) =>
                  /\ op'.err = "ok"
                  /\ habits'[h] = [self EXCEPT !._series = @ \o results]]_vars

\* A backfill of days with different results went through: the last two
\* entries of the series are the list's last two, in the list's order.
C3_Witness ==
    /\ op.name = "mark_missing_days" /\ op.err = "ok"
    /\ LET results == op.args[1]
           series == habits[op.h]._series
       IN  /\ Len(results) >= 2 /\ Len(series) > Len(results)
           /\ results[Len(results) - 1] # results[Len(results)]
           /\ series[Len(series)] = results[Len(results)]
           /\ series[Len(series) - 1] = results[Len(results) - 1]

\* C4: after a successful mark_missing_days(results, f) the missing count for
\* the same f is 0; with f = True today is marked; with f = False from a
\* state where today was not recorded, exactly today is missing and a
\* mark_today then succeeds.
C4_AfterBackfill ==
    [][\A h \in DOMAIN habits, f \in BOOLEAN :
        (/\ op'.name = "mark_missing_days" /\ op'.err = "ok"
         /\ op'.h = h /\ op'.args[2] = f) =>
            /\ get_num_missing_days(habits[h], f)' = Ok(0)
            /\ f => is_today_marked(habits[h])' = Ok(TRUE)
            /\ (~f /\ is_today_marked(habits[h]) = Ok(FALSE)) =>
                  /\ get_num_missing_days(habits[h], TRUE)' = Ok(1)
                  /\ \A r \in Result :
                        mark_today(habits[h], r)'.err = "ok"]_vars

\* A backfill that left today out has just filled the days before today.
C4_Witness ==
    /\ op.name = "mark_missing_days" /\ op.err = "ok"
    /\ op.args[2] = FALSE /\ Len(op.args[1]) >= 2
    /\ get_num_missing_days(habits[op.h], TRUE) = Ok(1)

\* C5: for a series no longer than the days elapsed plus one, the count
\* including today is numDays - len + 1, the count without today is 0 when
\* today is recorded and numDays - len otherwise; so the second is
\* max(0, first - 1) and neither is negative; get_num_missing_days returns
\* these values.
C5_MissingFormula ==
    /\ \A h \in DOMAIN habits :
          LengthOk(habits[h]) =>
             LET len == Len(habits[h]._series)
                 numDays == NumDays(habits[h])
                 mt == get_num_missing_days(habits[h], TRUE)
                 mf == get_num_missing_days(habits[h], FALSE)
             IN  /\ mt = Ok(numDays - len + 1)
                 /\ mf = Ok(IF len = numDays + 1 THEN 0 ELSE numDays - len)
                 /\ mf.val = (IF mt.val - 1 > 0 THEN mt.val - 1 ELSE 0)
                 /\ mt.val >= 0 /\ mf.val >= 0
    /\ (op.name = "get_num_missing_days" /\ LengthOk(habits[op.h])) =>
          LET len == Len(habits[op.h]._series)
              numDays == NumDays(habits[op.h])
          IN  /\ op.err = "ok"
              /\ op.args[1] => op.ret = numDays - len + 1
              /\ ~op.args[1] =>
                    op.ret = (IF len = numDays + 1 THEN 0 ELSE numDays - len)

\* The count without today was asked of a habit two days behind.
C5_Witness ==
    /\ op.name = "get_num_missing_days" /\ op.args[1] = FALSE
    /\ op.err = "ok" /\ op.ret = 2
    /\ get_num_missing_days(habits[op.h], TRUE) = Ok(3)

\* Every way of calling the four day-accounting methods on self fails.
AllFail(self) ==
    /\ \A f \in BOOLEAN : get_num_missing_days(self, f).err # "ok"
    /\ is_today_marked(self).err # "ok"
    /\ \A r \in DayResults : mark_today(self, r).err # "ok"
    /\ \A rs \in SeqsUpTo(DayResults, MaxLen), f \in BOOLEAN :
          mark_missing_days(self, rs, f).err # "ok"

\* C6 (as claimed): whenever today is earlier than the start date, the
\* missing count fails for both flags, and is_today_marked, mark_today and
\* mark_missing_days fail.
C6_FutureStartFails ==
    \A h \in DOMAIN habits :
       (DateOk(habits[h]) /\ NumDays(habits[h]) < 0) => AllFail(habits[h])

\* C7 (as claimed): every Habit object the API hands out has a series no
\* longer than the days elapsed since its start date plus one.
C7_NeverIntoFuture ==
    \A h \in DOMAIN habits : LengthOk(habits[h])

\* C8: on a habit whose series is longer than the days elapsed plus one,
\* get_num_missing_days (either flag), is_today_marked, mark_today and
\* mark_missing_days all fail, whatever their arguments, and the failed call
\* leaves the object as it was.
C8_CorruptGuard ==
    [][\A h \in DOMAIN habits :
          (/\ TooLong(habits[h])
           /\ op'.h = h
           /\ op'.name \in MarkNames
                 \cup {"get_num_missing_days", "is_today_marked"})
          => (op'.err # "ok" /\ habits' = habits)]_vars

\* mark_missing_days was refused on a habit whose series runs past today.
C8_Witness ==
    /\ op.name = "mark_missing_days" /\ op.err = "AssertionError"
    /\ TooLong(habits[op.h])
    /\ NumDays(habits[op.h]) >= 0

\* -------------------------------------------- the record-store machine

\* A habit object made by create while habits/ held no file (so its id is
\* "0"), with any of these fields, beside whatever habits/ holds by now;
\* then save, find and remove in any order.  Handle 1 is the created object,
\* handle 2 receives what find returns.
Titles == {"Read", _SEP}

DescriptionLines == {"", "x", _SEP}

Descriptions == {d \in SeqsUpTo(DescriptionLines, MaxDescLines) : Len(d) >= 1}

StartStrs == {_date_to_str(2), "", _SEP}

OldRecord == RecordLines("Old", <<"o">>, _date_to_str(1), <<"BAD", "BAD", "BAD">>)

\* The ids find is asked for: the habit's own, the other stored one and one
\* that is never stored.
StoreIds == {"0", "1", "2"}

PriorFiles ==
    {NoFiles, [i \in {"0"} |-> OldRecord], [i \in {"0", "1"} |-> OldRecord]}

InitStore ==
    /\ today = 2
    /\ dir = TRUE
    /\ files \in PriorFiles
    /\ habits \in {[i \in {1} |-> Habit("0", t, d, s, ser)] :
                      t \in Titles, d \in Descriptions, s \in StartStrs,
                      ser \in SeqsUpTo(Result, MaxLen)}
    /\ op = [name |-> "init", h |-> 0, args |-> <<>>, err |-> "ok",
             ret |-> <<>>, repeat |-> FALSE]

NextStore ==
    \/ \E h \in {1, 2} : Save(h)
    \/ \E i \in StoreIds : Find(2, i)
    \/ Remove(1)

SpecStore == InitStore /\ [][NextStore]_vars

\* ------------------------------------------------ claims: record store

\* C9 (as claimed): a find of a habit's id right after its save returns an
\* object with the same id, title, description, start date string and
\* series, for every title, description, start date string and series and
\* whatever was stored under the id before.
C9_RoundTripAnyStart ==
    [][\A h \in DOMAIN habits :
          (/\ op.name = "save" /\ op.h = h
           /\ op'.name = "find" /\ op'.args[1] = habits[h]._habit_id)
          => (op'.err = "ok" /\ habits'[op'.h] = habits[h])]_vars

\* C9 (amended): the same, for a start date string that is not the separator
\* line.
C9_RoundTrip ==
    [][\A h \in DOMAIN habits :
          (/\ op.name = "save" /\ op.h = h
           /\ op'.name = "find" /\ op'.args[1] = habits[h]._habit_id
           /\ habits[h]._start_date_str # _SEP)
          => (op'.err = "ok" /\ habits'[op'.h] = habits[h])]_vars

\* find has returned the saved habit over an older record: a description of
\* two or more lines, one of them the separator, and a series that is not
\* empty.
C9_Witness ==
    /\ op.name = "find" /\ op.err = "ok"
    /\ DOMAIN habits = {1, 2} /\ habits[2] = habits[1]
    /\ Len(habits[1].description) >= 2
    /\ \E i \in 1..Len(habits[1].description) : habits[1].description[i] = _SEP
    /\ habits[1]._series # <<>>
    /\ habits[1]._start_date_str # _SEP
    /\ files[habits[1]._habit_id] =
          RecordLines(habits[1].title, habits[1].description,
                      habits[1]._start_date_str, habits[1]._series)

\* C10: a save that directly follows a save of the same object leaves
\* habits/ as the first save left it; and a save changes no file but the
\* habit's own.
C10_SaveIdempotent ==
    [][op'.name = "save" =>
          /\ (op.name = "save" /\ op.h = op'.h) => files' = files
          /\ \A h \in DOMAIN habits :
                op'.h = h =>
                   \A i \in DOMAIN files \ {habits[h]._habit_id} :
                      i \in DOMAIN files' /\ files'[i] = files[i]]_vars

\* The habit was saved twice in a row beside another habit's record.
C10_Witness ==
    /\ op.name = "save" /\ op.repeat
    /\ Cardinality(DOMAIN files) >= 2
    /\ files[habits[op.h]._habit_id] =
          RecordLines(habits[op.h].title, habits[op.h].description,
                      habits[op.h]._start_date_str, habits[op.h]._series)

\* ------------------------------------------------ the title lookup

\* habits/ holds any records with these titles under the first
\* MaxTitleFiles ids; find is asked for a title.
MaxTitleFiles == 3

StoredTitles == {"Read", "read", "Run"}

Queries == {"READ", "read", "run", "Walk"}

TitleRecord(t) == RecordLines(t, <<"">>, _date_to_str(1), <<>>)

InitTitles ==
    /\ today = 1
    /\ dir = TRUE
    /\ \E ids \in SUBSET {str(i) : i \in 0..(MaxTitleFiles - 1)} :
          files \in [ids -> {TitleRecord(t) : t \in StoredTitles}]
    /\ habits = NoHabits
    /\ op = [name |-> "init", h |-> 0, args |-> <<>>, err |-> "ok",
             ret |-> <<>>, repeat |-> FALSE]

NextTitles ==
    \/ \E q \in Queries : FindByTitle(1, q)
    \/ \E i \in DOMAIN files : Find(1, i)

SpecTitles == InitTitles /\ [][NextTitles]_vars

\* The stored records whose title is q up to letter case.
Matches(q) == {i \in DOMAIN files : lower(files[i][1]) = lower(q)}

\* C13: find by title compares without regard to letter case against every
\* stored title: with one match it returns that habit, with none it fails
\* with "There is no habit", with two or more with "There are more than 1
\* habits"; a habit it returns has the query's title up to letter case.
C13_FindByTitle ==
    [][\A q \in Queries :
          (op'.name = "find_title" /\ op'.args[1] = q) =>
             /\ Cardinality(Matches(q)) = 1 =>
                   /\ op'.err = "ok"
                   /\ habits'[op'.h]._habit_id \in Matches(q)
                   /\ habits'[op'.h].title = files[habits'[op'.h]._habit_id][1]
             /\ Cardinality(Matches(q)) = 0 =>
                   op'.err = "There is no habit with title"
             /\ Cardinality(Matches(q)) >= 2 =>
                   op'.err = "There are more than 1 habits with title"
             /\ op'.err = "ok" =>
                   lower(habits'[op'.h].title) = lower(q)]_vars

\* "Read" and "read" are both stored and the lookup of "READ" was refused as
\* ambiguous.
C13_Witness ==
    /\ op.name = "find_title" /\ op.args[1] = "READ"
    /\ op.err = "There are more than 1 habits with title"
    /\ \E i, j \in DOMAIN files : files[i][1] = "Read" /\ files[j][1] = "read"

\* ---------------------------------------------------- the id machine

\* Two callers' handles; habits are created with defaults, saved, found by
\* id and removed in any order, up to id MaxId.
InitIds ==
    /\ today = 1
    /\ dir = FALSE
    /\ files = NoFiles
    /\ habits = NoHabits
    /\ op = [name |-> "init", h |-> 0, args |-> <<>>, err |-> "ok",
             ret |-> <<>>, repeat |-> FALSE]

AllIds == {str(i) : i \in 0..MaxId}

NextIds ==
    \E h \in {1, 2} :
       \/ Create(h, "Read", <<"">>, None, None)
       \/ Save(h)
       \/ Remove(h)
       \/ \E i \in AllIds : Find(h, i)

SpecIds == InitIds /\ [][NextIds]_vars

\* C11: create returns id 0 when habits/ holds no record, and otherwise the
\* largest stored id plus one, whatever gaps the stored ids have.
C11_IdAllocation ==
    [][\A h \in {1, 2} :
          (op'.name = "create" /\ op'.h = h) =>
             /\ op'.ret = (IF DOMAIN files = {} THEN "0"
                           ELSE str(Max({int(i) : i \in DOMAIN files}) + 1))
             /\ habits'[h]._habit_id = op'.ret]_vars

\* With the records 0 and 2 stored (1 is gone), create has returned id 3.
C11_Witness ==
    /\ op.name = "create" /\ op.ret = "3"
    /\ DOMAIN files = {"0", "2"}

\* C12 (as claimed, for the create that follows a removal): when every
\* habit object held has its record stored, a remove that succeeds deletes
\* a record that was stored, and the create right after it does not return
\* the removed id.
C12_NeverReused ==
    [][\A h \in DOMAIN habits :
          (/\ op.name = "remove" /\ op.err = "ok" /\ op.h = h
           /\ \A g \in DOMAIN habits \ {h} :
                 habits[g]._habit_id \in DOMAIN files
           /\ op'.name = "create")
          => op'.ret # habits[h]._habit_id]_vars

\* C14: remove deletes the record of the habit's id and no other, after
\* which find of that id fails; when the record is absent it fails and
\* leaves habits/ as it was.
C14_Remove ==
    [][\A h \in DOMAIN habits, i \in AllIds :
          (op'.name = "remove" /\ op'.h = h /\ habits[h]._habit_id = i) =>
             /\ i \in DOMAIN files =>
                   /\ op'.err = "ok"
                   /\ DOMAIN files' = DOMAIN files \ {i}
                   /\ \A j \in DOMAIN files' : files'[j] = files[j]
                   /\ find(i)'.err # "ok"
             /\ i \notin DOMAIN files =>
                   (op'.err # "ok" /\ files' = files)]_vars

\* A record was removed while a record with a larger id stays stored.
C14_Witness ==
    /\ op.name = "remove" /\ op.err = "ok"
    /\ habits[op.h]._habit_id \notin DOMAIN files
    /\ \E j \in DOMAIN files : int(j) > int(habits[op.h]._habit_id)

\* C20 (as claimed, for two creates in a row): the second create returns an
\* id different from the first's, whether or not the first habit was saved.
C20_DistinctIds ==
    [][(op.name = "create" /\ op'.name = "create") => op'.ret # op.ret]_vars

\* ------------------------------------------- the mark-and-save machine

\* One habit, created with defaults while habits/ is empty (handle 1), is
\* marked and saved as the days pass; handle 2 receives what find returns.
NextSave ==
    \/ (DOMAIN files = {} /\ Create(1, "Read", <<"">>, None, None))
    \/ \E r \in DayResults : MarkToday(1, r)
    \/ \E rs \in SeqsUpTo(DayResults, MaxLen), f \in BOOLEAN :
          MarkMissingDays(1, rs, f)
    \/ \E f \in BOOLEAN : GetNumMissingDays(1, f)
    \/ IsTodayMarked(1)
    \/ Save(1)
    \/ \E i \in {"0", "1"} : Find(2, i)
    \/ AdvanceDay

SpecSave == InitIds /\ [][NextSave]_vars

\* C15: only save and remove change habits/: create, mark_today,
\* mark_missing_days, get_num_missing_days, is_today_marked (and find) leave
\* every record as it was; so find returns the record as last saved,
\* whatever was marked in memory since, and fails for an id never saved.
C15_NoAutoSave ==
    [][/\ op'.name \notin {"save", "remove"} => files' = files
       /\ \A i \in {"0", "1"} :
             (op'.name = "find" /\ op'.args[1] = i) =>
                IF i \in DOMAIN files
                THEN /\ op'.err = "ok"
                     /\ habits'[op'.h]._habit_id = i
                     /\ files[i] = RecordLines(habits'[op'.h].title,
                                               habits'[op'.h].description,
                                               habits'[op'.h]._start_date_str,
                                               habits'[op'.h]._series)
                ELSE op'.err # "ok"]_vars

\* find has returned the habit as saved, while the object it was saved from
\* has been marked further since.
C15_Witness ==
    /\ op.name = "find" /\ op.err = "ok"
    /\ DOMAIN habits = {1, 2}
    /\ habits[2]._habit_id = habits[1]._habit_id
    /\ Len(habits[2]._series) >= 1
    /\ Len(habits[1]._series) > Len(habits[2]._series)

IsPrefix(s, t) == Len(s) <= Len(t) /\ \A i \in 1..Len(s) : s[i] = t[i]

\* C18: across mark_today, mark_missing_days, the two queries, save and the
\* passing of days, a habit object keeps its id and start date and its
\* series only grows at the end: the series before is a prefix of the
\* series after.
C18_AppendOnly ==
    [][\A h \in DOMAIN habits :
          op'.name \in MarkNames \cup {"get_num_missing_days",
                                       "is_today_marked", "save",
                                       "advance_day"} =>
             /\ h \in DOMAIN habits'
             /\ habits'[h]._habit_id = habits[h]._habit_id
             /\ habits'[h]._start_date_str = habits[h]._start_date_str
             /\ IsPrefix(habits[h]._series, habits'[h]._series)]_vars

\* A backfill has just extended a series that was saved earlier: the saved
\* series is a proper, non-empty prefix of the present one.
C18_Witness ==
    /\ op.name = "mark_missing_days" /\ op.err = "ok"
    /\ Len(op.args[1]) >= 2
    /\ "0" \in DOMAIN files
    /\ LET saved == _read_habit("0").val[4]
       IN  /\ Len(saved) >= 1
           /\ Len(saved) < Len(habits[1]._series)
           /\ IsPrefix(saved, habits[1]._series)

\* ------------------------------------------------ the decoding machine

MaxFileLines == 6

\* The lines a stored file may hold: a separator, a text line, a result
\* code, the empty line.
FileLines == {_SEP, "x", "+", ""}

\* habits/0 holds any lines at all (read().splitlines() can return any
\* sequence of lines); there is no habits/1.
InitDecode ==
    /\ today = 1
    /\ dir = TRUE
    /\ \E lines \in SeqsUpTo(FileLines, MaxFileLines) :
          files = [i \in {"0"} |-> lines]
    /\ habits = NoHabits
    /\ op = Call("init", 0, <<>>, Ok(<<>>))

NextDecode == \E i \in {"0", "1"} : Find(1, i)

SpecDecode == InitDecode /\ [][NextDecode]_vars

\* The place (counted from 1) of the separator that ends the description:
\* the last one in the file.
SecondSep(lines) == CHOOSE i \in 1..Len(lines) :
                       lines[i] = _SEP /\ \A j \in (i+1)..Len(lines) : lines[j] # _SEP

\* The lines after the start-date line.
SeriesLines(lines) == [i \in 1..(Len(lines) - SecondSep(lines) - 1) |->
                          lines[SecondSep(lines) + 1 + i]]

Malformed(lines) ==
    \/ Len(lines) < 2
    \/ lines[2] # _SEP
    \/ ~\E i \in 3..Len(lines) : lines[i] = _SEP
    \/ SecondSep(lines) = 3
    \/ /\ SeriesLines(lines) # <<"">>
       /\ \E i \in DOMAIN SeriesLines(lines) :
             SeriesLines(lines)[i] \notin {"+", "-", "?"}

\* C16: find by id fails when there is no record of that id, and when the
\* record is malformed: fewer than 2 lines, second line not the separator,
\* no later separator, the description-ending (last) separator right after
\* the first, or a series line (other than the single empty line of an
\* empty series) that is not "+", "-" or "?".
C16_FindFails ==
    op.name = "find" =>
       ((op.args[1] \notin DOMAIN files \/ Malformed(files[op.args[1]]))
           => op.err # "ok")

\* find has failed on a record whose only fault is its one series line.
C16_Witness ==
    /\ op.name = "find" /\ op.args[1] = "0" /\ op.err = "AssertionError"
    /\ files["0"] = <<"x", _SEP, "x", _SEP, "x", "x">>

\* ------------------------------------------------ the passing of days

\* C17: today is read at every call.  When the day advances with m days
\* missing (m = 0: today was marked), the same untouched object has m + 1
\* days missing counting today and m not counting it, today is not marked,
\* and mark_today succeeds exactly when m + 1 = 1; so k advances after an
\* up-to-date state leave k and k - 1 days missing (the calls between them
\* that change nothing leave object and day, and so these answers, as they
\* are).  With m >= 1 days missing mark_today succeeds right after a
\* successful backfill of the earlier days.
C17_TodayAtEveryCall ==
    [][/\ op'.name = "advance_day" =>
             \A h \in DOMAIN habits :
                LET n == get_num_missing_days(habits[h], TRUE)
                IN  n.err = "ok" =>
                       /\ get_num_missing_days(habits[h], TRUE)'
                             = Ok(n.val + 1)
                       /\ get_num_missing_days(habits[h], FALSE)'
                             = Ok(n.val)
                       /\ is_today_marked(habits[h])' = Ok(FALSE)
                       /\ \A r \in DayResults :
                             (mark_today(habits[h], r).err = "ok")'
                                <=> (n.val + 1 = 1)
       /\ (/\ op'.name = "mark_missing_days"
           /\ op'.err = "ok" /\ op'.args[2] = FALSE) =>
             \A h \in DOMAIN habits :
                (/\ op'.h = h
                 /\ get_num_missing_days(habits[h], TRUE).err = "ok"
                 /\ get_num_missing_days(habits[h], TRUE).val >= 1) =>
                   \A r \in DayResults :
                      (mark_today(habits[h], r).err = "ok")']_vars

\* The day has advanced to the second day after the last marked one: the
\* series is not empty, two days are missing and mark_today would fail.
C17_Witness ==
    /\ op.name = "advance_day"
    /\ 1 \in DOMAIN habits
    /\ Len(habits[1]._series) >= 1
    /\ get_num_missing_days(habits[1], TRUE) = Ok(2)
    /\ get_num_missing_days(habits[1], FALSE) = Ok(1)
    /\ is_today_marked(habits[1]) = Ok(FALSE)
    /\ mark_today(habits[1], "GOOD").err = "There are other days missing!"

\* ------------------------------------------- separators in descriptions

HasSepLine(description) ==
    \E i \in 1..Len(description) : description[i] = _SEP

\* C19: the second line of the record ends the title and the last separator
\* line ends the description: a habit whose description holds separator
\* lines (and whose start date is a date) is found after its save with the
\* same title, description, start date and series.
C19_SepInDescription ==
    [][\A h \in DOMAIN habits :
          (/\ op.name = "save" /\ op.h = h
           /\ op'.name = "find" /\ op'.args[1] = habits[h]._habit_id
           /\ HasSepLine(habits[h].description)
           /\ _str_to_date(habits[h]._start_date_str).err = "ok")
          => /\ op'.err = "ok"
             /\ habits'[op'.h].title = habits[h].title
             /\ habits'[op'.h].description = habits[h].description
             /\ habits'[op'.h]._start_date_str = habits[h]._start_date_str
             /\ habits'[op'.h]._series = habits[h]._series]_vars

\* find has returned a saved habit whose description is nothing but
\* separator lines, the first right after the separator that ends the title.
C19_Witness ==
    /\ op.name = "find" /\ op.err = "ok"
    /\ DOMAIN habits = {1, 2}
    /\ habits[1].description = <<_SEP, _SEP>>
    /\ habits[2].description = <<_SEP, _SEP>>
    /\ habits[2].title = habits[1].title
    /\ habits[2]._series = habits[1]._series /\ Len(habits[1]._series) >= 2
    /\ habits[2]._start_date_str = _date_to_str(2)
    /\ habits[1]._start_date_str = _date_to_str(2)

====
